---- MODULE Spec2Model ----
(***************************************************************************)
(* One WebSocket connection of the shadowsocks-ws server (src/server.mjs): *)
(* the inbound AEAD framer, the relay state machine and the outbound       *)
(* framer, with the client, the remote socket and the WebSocket library    *)
(* as the environment.                                                     *)
(*                                                                         *)
(* Byte buffers are modelled by extent, not by content: a plaintext Buffer *)
(* is the byte range lo..hi-1 of a source (src), together with the values  *)
(* of those leading bytes the program inspects (head).  A ciphertext       *)
(* buffer is a byte range of the client's stream.                          *)
(***************************************************************************)
EXTENDS Integers, Sequences, FiniteSets, TLC

\* ---------------------------------------------------------------- constants
CLOSED  == "closed"
OPENING == "opening"
OPEN    == "open"
WRITING == "writing"

SALT_SIZE == 32
TAG_SIZE  == 16
MAX_CHUNK == 16383

\* ------------------------------------------------------------------- bounds
MaxData    == 2
MaxBatches == 2

\* ------------------------------------------------------------------ buffers
Min(a, b) == IF a < b THEN a ELSE b
Max(a, b) == IF a > b THEN a ELSE b

Undefined == -1

BufLen(b) == b.hi - b.lo

\* Buffer.subarray(s, e): indices are clamped to the buffer
Subarray(b, s, e) ==
  LET n  == BufLen(b)
      s1 == Min(s, n)
      e1 == Max(s1, Min(e, n))
  IN  [src |-> b.src, lo |-> b.lo + s1, hi |-> b.lo + e1,
       head |-> SubSeq(b.head, s1 + 1, Min(e1, Len(b.head)))]

\* buf[i]: undefined past the end; bytes the model does not name read as 0
ByteAt(b, i) ==
  IF i >= BufLen(b) THEN Undefined
  ELSE IF i < Len(b.head) THEN b.head[i + 1] ELSE 0

\* Buffer.readUInt16BE(off) on a buffer whose bytes off, off+1 are named
ReadUInt16BE(b, off) == ByteAt(b, off) * 256 + ByteAt(b, off + 1)

\* Buffer.alloc(2).writeUInt16BE(n)
WriteUInt16BE(n) ==
  [src |-> 0, lo |-> 0, hi |-> 2, head |-> <<(n \div 256) % 256, n % 256>>]

NullBuf == [src |-> -1, lo |-> 0, hi |-> 0, head |-> <<>>]

\* --------------------------------------------------------------- wire items
\* A salt, or one AEAD-sealed frame (ciphertext of |pt| bytes, then the tag)
SaltItem(k) ==
  [kind |-> "salt", key |-> k, nonce |-> 0,
   pt |-> [src |-> 0, lo |-> 0, hi |-> SALT_SIZE, head |-> <<>>], ok |-> TRUE]

Frame(k, n, pt) == [kind |-> "frame", key |-> k, nonce |-> n, pt |-> pt, ok |-> TRUE]

ItemSize(it) == IF it.kind = "salt" THEN BufLen(it.pt) ELSE BufLen(it.pt) + TAG_SIZE

RECURSIVE WireLen(_)
WireLen(items) ==
  IF items = <<>> THEN 0 ELSE ItemSize(Head(items)) + WireLen(Tail(items))

\* offset of the i-th item in the concatenation of items
ItemStart(items, i) == WireLen(SubSeq(items, 1, i - 1))

\* ------------------------------------------------------- the client's stream
ClientKey == 1
ServerKey == 2

Payload(id, size, head) == [src |-> id, lo |-> 0, hi |-> size, head |-> head]

\* salt, then for every plaintext a length frame and a payload frame
MkStream(plains) ==
  <<SaltItem(ClientKey)>> \o
  [i \in 1..(2 * Len(plains)) |->
     IF i % 2 = 1
     THEN Frame(ClientKey, i - 1, WriteUInt16BE(BufLen(plains[(i + 1) \div 2])))
     ELSE Frame(ClientKey, i - 1, plains[i \div 2])]

Tamper(items, i) == IF i = 0 THEN items ELSE [items EXCEPT ![i].ok = FALSE]

\* first payloads: <<size, leading bytes>>
AddrV4      == <<7, <<1, 127>>>>
AddrV4More  == <<12, <<1, 127>>>>
AddrDom     == <<7, <<3, 3>>>>
AddrDomMore == <<9, <<3, 3>>>>
AddrV6      == <<19, <<4, 0>>>>
AddrBadAtyp == <<7, <<5, 0>>>>
AddrShortV4 == <<3, <<1, 127>>>>
AddrShortDom == <<6, <<3, 3>>>>
AddrOneByte == <<1, <<3>>>>
AddrShortV6 == <<18, <<4, 0>>>>
AddrEmpty   == <<0, <<>>>>

GoodAddrs == {AddrV4, AddrV4More, AddrDom, AddrDomMore, AddrV6}
BadAddrs  == {AddrBadAtyp, AddrShortV4, AddrShortDom, AddrOneByte, AddrShortV6, AddrEmpty}

DataLen     == 5
BadDataLens == {0, MAX_CHUNK + 1, 65535}

\* <<DataLen, ..., DataLen>>, n times
Tail_(n) == [i \in 1..n |-> DataLen]

Plains(addr, lens) ==
  <<Payload(1, addr[1], addr[2])>> \o
  [i \in 1..Len(lens) |-> Payload(i + 1, lens[i], <<>>)]

\* streams whose every frame verifies and whose lengths are in 1..0x3FFF
ValidStreams ==
  {MkStream(Plains(AddrV4More, Tail_(n))) : n \in 0..MaxData}
    \cup {MkStream(Plains(AddrDom, <<>>))}
    \cup {MkStream(Plains(a, <<DataLen>>)) : a \in GoodAddrs}
    \cup {MkStream(Plains(AddrV4, <<MAX_CHUNK>>))}

\* streams with a bad address header, a bad length, or one tampered frame
BadStreams ==
  {MkStream(Plains(a, <<DataLen>>)) : a \in BadAddrs}
    \cup {MkStream(Plains(AddrV4, <<l>>)) : l \in BadDataLens}
    \cup {Tamper(MkStream(Plains(AddrV4More, <<DataLen>>)), i) : i \in 2..5}
    \cup {Tamper(MkStream(Plains(AddrV4, <<DataLen, DataLen>>)), 7)}

Streams == ValidStreams \cup BadStreams

\* -------------------------------------------------------------------- state
VARIABLES
  rx, decipher, cipherTextSize, chunkIndex, payloads,   \* decryption context
  tx, cipher,                                           \* encryption context
  stage, remote,                                        \* server context
  released,       \* the close handler has nulled decipher, cipher, rx and tx
  readyState, wsPaused, sending, sent,                  \* the WebSocket
  pc,             \* where the suspended message handler waits: idle, connect, drain
  stream, starts, \* the client's byte stream and the offsets of its items
  recvd,          \* how much of the stream has arrived
  batchLog,       \* the data the remote has produced, one buffer per 'data' event
  emitted, enqueued, written, authFail, threw, connects, salts,   \* history
  late,           \* a payload was decrypted while stage was OPENING or WRITING
  drainTick,      \* flips at every 'drain' event of the remote
  stageLog        \* the values the last handler step to assign stage gave it

vars == <<rx, decipher, cipherTextSize, chunkIndex, payloads, tx, cipher, stage,
          remote, released, readyState, wsPaused, sending, sent, pc, stream,
          starts, recvd, batchLog, emitted, enqueued, written, authFail, threw,
          connects, salts, late, drainTick, stageLog>>

NullCtx == [init |-> FALSE, key |-> 0, nonce |-> 0, poisoned |-> FALSE]

NullSocket ==
  [null |-> TRUE, destroyed |-> FALSE, paused |-> FALSE, handlers |-> FALSE,
   fin |-> FALSE, ended |-> FALSE, closed |-> FALSE]

Init ==
  /\ rx = <<>>
  /\ decipher = NullCtx
  /\ cipherTextSize = 2
  /\ chunkIndex = 0
  /\ payloads = <<>>
  /\ tx = <<>>
  /\ cipher = NullCtx
  /\ stage = CLOSED
  /\ remote = NullSocket
  /\ released = FALSE
  /\ readyState = "OPEN"
  /\ wsPaused = FALSE
  /\ sending = 0
  /\ sent = <<>>
  /\ pc = "idle"
  /\ stream \in Streams
  /\ starts = [i \in 1..Len(stream) |-> ItemStart(stream, i)]
  /\ recvd = 0
  /\ batchLog = <<>>
  /\ emitted = <<>>
  /\ enqueued = <<>>
  /\ written = <<>>
  /\ authFail = -1
  /\ threw = FALSE
  /\ connects = 0
  /\ salts = 0
  /\ late = FALSE
  /\ drainTick = FALSE
  /\ stageLog = <<>>

\* where a WebSocket message may end: before, inside and at the end of the
\* salt, and inside the ciphertext, inside the tag and at the end of every
\* frame (a message that ends where the last one ended is empty)
CutPoints ==
  LET end == starts[Len(stream)] + ItemSize(stream[Len(stream)])
      around(i) == {starts[i] + 1, starts[i] + BufLen(stream[i].pt) + 1,
                    starts[i] + ItemSize(stream[i])}
  IN  {0} \cup {c \in UNION {around(i) : i \in 1..Len(stream)} : c <= end}

\* ------------------------------------------------------------ inbound framer
WLen(d) == d.hi - d.lo

RECURSIVE SumLen(_)
SumLen(bufs) == IF bufs = <<>> THEN 0 ELSE WLen(Head(bufs)) + SumLen(Tail(bufs))

\* Buffer.concat of pieces of the stream
Concat(bufs) ==
  IF bufs = <<>> THEN [lo |-> 0, hi |-> 0]
  ELSE [lo |-> Head(bufs).lo, hi |-> Head(bufs).lo + SumLen(bufs)]

\* Retrieve that forgets the bytes kept from the last message
RetrieveDropsRx(rx0, data) == [data |-> data, rx |-> <<>>]

\* retrieve bytes received last time
Retrieve(rx0, data) ==
  IF Len(rx0) > 0
  THEN [data |-> Concat(Append(rx0, data)), rx |-> <<>>]
  ELSE [data |-> data, rx |-> rx0]

\* hkdfSync(KEY, salt): the sub-key the bytes at salt.lo stand for
Hkdf(salt) ==
  LET at == {i \in 1..Len(stream) :
               stream[i].kind = "salt" /\ starts[i] = salt.lo
               /\ WLen(salt) = ItemSize(stream[i])}
  IN  IF at = {} THEN 0 ELSE stream[CHOOSE i \in at : TRUE].key

\* decipher.decrypt(cipherText, authTag): the plaintext, or NullBuf
AeadDecrypt(ctx, cipherText, authTag) ==
  LET hits == {i \in 1..Len(stream) :
                 /\ stream[i].kind = "frame"
                 /\ starts[i] = cipherText.lo
                 /\ BufLen(stream[i].pt) = WLen(cipherText)
                 /\ authTag.lo = cipherText.hi
                 /\ WLen(authTag) = TAG_SIZE
                 /\ stream[i].ok
                 /\ stream[i].key = ctx.key
                 /\ stream[i].nonce = ctx.nonce}
  IN  IF ctx.poisoned \/ hits = {} THEN NullBuf
      ELSE stream[CHOOSE i \in hits : TRUE].pt

\* the decryption context after that call
AeadAfter(ctx, plainText) ==
  IF plainText = NullBuf THEN [ctx EXCEPT !.poisoned = TRUE]
  ELSE [ctx EXCEPT !.nonce = @ + 1]

\* AuthFailed without ws.terminate()
AuthFailedNoTerminate(s) ==
  [s EXCEPT !.ret = TRUE, !.authFail = IF @ = -1 THEN s.data.lo ELSE @]

\* plainText === null: warn, terminate, return
AuthFailed(s) ==
  [s EXCEPT !.term = TRUE, !.ret = TRUE,
            !.authFail = IF @ = -1 THEN s.data.lo ELSE @]

\* LengthChunk that reads the length little-endian
LengthChunkLE(plainText) == ByteAt(plainText, 1) * 256 + ByteAt(plainText, 0)

\* current chunk is length chunk
LengthChunk(plainText) == ReadUInt16BE(plainText, 0)

\* decrypt chunks
RECURSIVE DecryptChunks(_)
DecryptChunks(s) ==
  IF WLen(s.data) = 0 THEN s
  ELSE
    LET chunkSize == s.cipherTextSize + TAG_SIZE IN
    IF WLen(s.data) < chunkSize THEN [s EXCEPT !.rx = Append(@, s.data)]
    ELSE
      LET cipherText == [lo |-> s.data.lo, hi |-> s.data.lo + s.cipherTextSize]
          authTag    == [lo |-> cipherText.hi, hi |-> s.data.lo + chunkSize]
          rest       == [lo |-> s.data.lo + chunkSize, hi |-> s.data.hi]
          plainText  == AeadDecrypt(s.decipher, cipherText, authTag)
          s1 == [s EXCEPT !.decipher = AeadAfter(s.decipher, plainText)]
      IN  IF plainText = NullBuf THEN AuthFailed(s1)
          ELSE IF s.chunkIndex % 2 = 0
          THEN DecryptChunks([s1 EXCEPT !.data = rest,
                                        !.cipherTextSize = LengthChunk(plainText),
                                        !.chunkIndex = @ + 1])
          ELSE DecryptChunks([s1 EXCEPT !.data = rest,
                                        !.cipherTextSize = 2,
                                        !.payloads = Append(@, plainText),
                                        !.emitted = Append(@, plainText),
                                        !.enqueued = Append(@, plainText),
                                        !.late = @ \/ stage \in {OPENING, WRITING},
                                        !.chunkIndex = @ + 1])

\* init decipher, then decrypt chunks
Feed(data0) ==
  LET r  == Retrieve(rx, data0)
      s0 == [data |-> r.data, rx |-> r.rx, decipher |-> decipher,
             cipherTextSize |-> cipherTextSize, chunkIndex |-> chunkIndex,
             payloads |-> payloads, emitted |-> emitted, enqueued |-> enqueued,
             authFail |-> authFail, late |-> late,
             term |-> FALSE, ret |-> FALSE]
  IN  IF ~decipher.init
      THEN IF WLen(r.data) < SALT_SIZE
           THEN [s0 EXCEPT !.rx = Append(@, r.data), !.ret = TRUE]
           ELSE LET salt == [lo |-> r.data.lo, hi |-> r.data.lo + SALT_SIZE]
                IN  DecryptChunks([s0 EXCEPT
                      !.data = [lo |-> salt.hi, hi |-> r.data.hi],
                      !.decipher = [init |-> TRUE, key |-> Hkdf(salt),
                                    nonce |-> 0, poisoned |-> FALSE]])
      ELSE DecryptChunks(s0)

\* ------------------------------------------------------- relay state machine
\* ws.terminate()
Terminate(rs) == IF rs = "CLOSED" THEN rs ELSE "CLOSING"

\* the switch on address[0]: what is left of the payload after the header,
\* "invalid" for the default branch, "throw" when readUInt16BE is out of range
ParseAddress(address) ==
  LET atyp == ByteAt(address, 0)
      n    == BufLen(address)
      hdr  == CASE atyp = 3 -> IF ByteAt(address, 1) = Undefined THEN n + 1
                               ELSE 4 + ByteAt(address, 1)
                [] atyp = 1 -> 7
                [] atyp = 4 -> 19
                [] OTHER    -> 0
  IN  IF atyp \notin {1, 3, 4} THEN [res |-> "invalid", rest |-> NullBuf]
      ELSE IF hdr > n THEN [res |-> "throw", rest |-> NullBuf]
      ELSE [res |-> "ok", rest |-> Subarray(address, hdr, n)]

\* if (address.length !== 0) payloads.push(address)
EnqueueRest(q, address) == IF BufLen(address) # 0 THEN Append(q, address) ELSE q

\* Drained with an if in place of the while: one write, then stage = OPEN
DrainedOnce(q, k, paused) ==
  IF k = 0
  THEN [written |-> SubSeq(q, 1, Min(1, Len(q))), payloads |-> SubSeq(q, 2, Len(q)),
        stage |-> OPEN, pc |-> "idle", wsPaused |-> paused]
  ELSE [written |-> SubSeq(q, 1, 1), payloads |-> SubSeq(q, 2, Len(q)),
        stage |-> WRITING, pc |-> "drain", wsPaused |-> TRUE]

\* Drained without ws.pause() after a write that must wait
DrainedNoPause(q, k, paused) ==
  IF k = 0
  THEN [written |-> q, payloads |-> <<>>, stage |-> OPEN, pc |-> "idle",
        wsPaused |-> paused]
  ELSE [written |-> SubSeq(q, 1, k), payloads |-> SubSeq(q, k + 1, Len(q)),
        stage |-> WRITING, pc |-> "drain", wsPaused |-> paused]

\* Drained with payloads.pop() in place of payloads.shift()
DrainedPop(q, k, paused) ==
  LET rev == [i \in 1..Len(q) |-> q[Len(q) + 1 - i]] IN
  IF k = 0
  THEN [written |-> rev, payloads |-> <<>>, stage |-> OPEN, pc |-> "idle",
        wsPaused |-> paused]
  ELSE [written |-> SubSeq(rev, 1, k), payloads |-> SubSeq(q, 1, Len(q) - k),
        stage |-> WRITING, pc |-> "drain", wsPaused |-> TRUE]

\* stage = WRITING and the drain loop, up to its first await or to stage = OPEN.
\* k = 0: every remote.write is accepted; k > 0: the k-th write must wait.
Drained(q, k, paused) ==
  IF k = 0
  THEN [written |-> q, payloads |-> <<>>, stage |-> OPEN, pc |-> "idle",
        wsPaused |-> paused]
  ELSE [written |-> SubSeq(q, 1, k), payloads |-> SubSeq(q, k + 1, Len(q)),
        stage |-> WRITING, pc |-> "drain", wsPaused |-> TRUE]

\* Entered without stage = WRITING
EnteredNoWriting(resumed) == <<>>

\* stage = WRITING, on entering the drain loop and not when it is resumed
Entered(resumed) == IF resumed THEN <<>> ELSE <<WRITING>>

Drain(q, paused) ==
  \E k \in 0..Len(q) :
    LET d == Drained(q, k, paused) IN
      /\ written' = written \o d.written
      /\ stageLog' = Entered(pc = "drain") \o
                       (IF d.stage = OPEN THEN <<OPEN>> ELSE <<>>)
      /\ payloads' = d.payloads
      /\ stage' = d.stage
      /\ pc' = d.pc
      /\ wsPaused' = d.wsPaused

\* stage === CLOSED: parse the address header and start the connect
Open(q, enq) ==
  LET p == ParseAddress(Head(q)) IN
    /\ stage' = OPENING
    /\ stageLog' = <<OPENING>>
    /\ written' = written
    /\ payloads' = IF p.res = "ok" THEN EnqueueRest(Tail(q), p.rest) ELSE Tail(q)
    /\ enqueued' = IF p.res = "ok" /\ BufLen(p.rest) # 0
                   THEN Append(enq, p.rest) ELSE enq
    /\ readyState' = IF p.res = "invalid" THEN Terminate(readyState) ELSE readyState
    /\ threw' = (threw \/ p.res = "throw")
    /\ wsPaused' = (wsPaused \/ p.res = "ok")
    /\ connects' = IF p.res = "ok" THEN connects + 1 ELSE connects
    /\ pc' = IF p.res = "ok" THEN "connect" ELSE "idle"

\* Busy without the test for WRITING
BusyOnlyOpening(st) == st = OPENING

\* stage === OPENING || stage === WRITING
Busy(st) == st \in {OPENING, WRITING}

\* ws.on('message')
Message(c) ==
  /\ readyState # "CLOSED"
  /\ c >= recvd
  /\ recvd' = c
  /\ LET s == Feed([lo |-> recvd, hi |-> c]) IN
       /\ rx' = s.rx
       /\ decipher' = s.decipher
       /\ cipherTextSize' = s.cipherTextSize
       /\ chunkIndex' = s.chunkIndex
       /\ emitted' = s.emitted
       /\ late' = s.late
       /\ authFail' = s.authFail
       /\ IF s.ret \/ Len(s.payloads) = 0 \/ Busy(stage)
          THEN /\ payloads' = s.payloads
               /\ enqueued' = s.enqueued
               /\ readyState' = IF s.term THEN Terminate(readyState) ELSE readyState
               /\ UNCHANGED <<stage, pc, wsPaused, written, threw, connects,
                              stageLog>>
          ELSE IF stage = CLOSED
          THEN Open(s.payloads, s.enqueued)
          ELSE /\ Drain(s.payloads, wsPaused)
               /\ enqueued' = s.enqueued
               /\ UNCHANGED <<readyState, threw, connects>>
  /\ UNCHANGED <<tx, cipher, remote, released, sending, sent, stream, starts,
                 batchLog, salts, drainTick>>

\* cipher.encrypt(pt): the sealed frame; the nonce advances
Encrypt(ctx, pt) == Frame(ctx.key, ctx.nonce, pt)

\* InitCipher without tx.push(salt)
InitCipherNoSalt(tx0) ==
  [tx |-> tx0,
   cipher |-> [init |-> TRUE, key |-> ServerKey, nonce |-> 0, poisoned |-> FALSE]]

\* salt = randomBytes(SALT_SIZE); tx.push(salt); cipher = new AEAD(hkdf(salt))
InitCipher(tx0) ==
  [tx |-> Append(tx0, SaltItem(ServerKey)),
   cipher |-> [init |-> TRUE, key |-> ServerKey, nonce |-> 0, poisoned |-> FALSE]]

\* StillOpen that never sees the WebSocket closed
StillOpenAlways(rs) == TRUE

\* ws.readyState === WebSocket.OPEN
StillOpen(rs) == rs = "OPEN"

\* remote = await connect(port, addr) resolves
ConnectOk ==
  /\ pc = "connect"
  /\ IF ~StillOpen(readyState)
     THEN /\ remote' = [NullSocket EXCEPT !.null = FALSE, !.destroyed = TRUE]
          /\ pc' = "idle"
          /\ wsPaused' = FALSE
          /\ UNCHANGED <<tx, cipher, salts, stage, payloads, written, stageLog>>
     ELSE /\ remote' = [NullSocket EXCEPT !.null = FALSE, !.handlers = TRUE]
          /\ salts' = salts + 1
          /\ tx' = InitCipher(tx).tx
          /\ cipher' = InitCipher(tx).cipher
          /\ Drain(payloads, FALSE)
  /\ UNCHANGED <<rx, decipher, cipherTextSize, chunkIndex, released,
                 readyState, sending, sent, stream, starts, recvd, batchLog,
                 emitted, enqueued, authFail, threw, connects, late, drainTick>>

\* ConnectFail without ws.terminate()
ConnectFailNoTerminate ==
  /\ pc = "connect"
  /\ pc' = "idle"
  /\ UNCHANGED <<rx, decipher, cipherTextSize, chunkIndex, payloads, tx,
                 cipher, stage, remote, released, readyState, wsPaused,
                 sending, sent, stream, starts, recvd, batchLog, emitted,
                 enqueued, written, authFail, threw, connects, salts, late,
                 drainTick, stageLog>>

\* await connect(port, addr) rejects
ConnectFail ==
  /\ pc = "connect"
  /\ pc' = "idle"
  /\ readyState' = Terminate(readyState)
  /\ UNCHANGED <<rx, decipher, cipherTextSize, chunkIndex, payloads, tx,
                 cipher, stage, remote, released, wsPaused, sending, sent,
                 stream, starts, recvd, batchLog, emitted, enqueued, written,
                 authFail, threw, connects, salts, late, drainTick, stageLog>>

\* the remote's 'drain' event resolves the awaited promise
RemoteDrain ==
  /\ pc = "drain"
  /\ ~remote.destroyed
  /\ drainTick' = ~drainTick
  /\ Drain(payloads, FALSE)
  /\ UNCHANGED <<rx, decipher, cipherTextSize, chunkIndex, tx, cipher, remote,
                 released, readyState, sending, sent, stream, starts, recvd,
                 batchLog, emitted, enqueued, authFail, threw, connects, salts,
                 late>>

\* ----------------------------------------------------------- outbound framer
RemoteSrc == 100
\* the sizes of a 'data' event: one or three chunks at first, three afterwards
BatchLens ==
  IF batchLog = <<>> THEN {MAX_CHUNK, 2 * MAX_CHUNK + 1} ELSE {2 * MAX_CHUNK + 1}

\* FirstChunk one byte too long
FirstChunkTooLong(data) == Subarray(data, 0, MAX_CHUNK + 1)

\* data.subarray(0, 0x3fff)
FirstChunk(data) == Subarray(data, 0, MAX_CHUNK)

\* the while loop of remote.on('data'): tx and cipher after framing data
RECURSIVE Wrap(_, _, _)
Wrap(out, ctx, data) ==
  IF BufLen(data) > 0
  THEN LET payload == FirstChunk(data)
           length  == WriteUInt16BE(BufLen(payload))
           c1      == [ctx EXCEPT !.nonce = @ + 1]
           c2      == [c1 EXCEPT !.nonce = @ + 1]
       IN  Wrap(out \o <<Encrypt(ctx, length), Encrypt(c1, payload)>>, c2,
                Subarray(data, MAX_CHUNK, BufLen(data)))
  ELSE [tx |-> out, cipher |-> ctx]

\* SendBatch without remote.pause()
SendBatchNoPause(w, sock) ==
  [remote |-> sock, sent |-> Append(sent, w.tx), sending |-> sending + 1,
   tx |-> <<>>]

\* remote.pause(); ws.send(Buffer.concat(tx), () => remote.resume()); tx = []
SendBatch(w, sock) ==
  [remote |-> [sock EXCEPT !.paused = TRUE], sent |-> Append(sent, w.tx),
   sending |-> sending + 1, tx |-> <<>>]

\* the bytes the remote has produced so far
produced == IF batchLog = <<>> THEN 0 ELSE batchLog[Len(batchLog)].hi

\* remote.on('data')
RemoteData(n) ==
  /\ remote.handlers
  /\ ~remote.paused /\ ~remote.destroyed /\ ~remote.fin
  /\ Len(batchLog) < MaxBatches
  /\ LET data == [src |-> RemoteSrc, lo |-> produced, hi |-> produced + n,
                  head |-> <<>>]
         b    == SendBatch(Wrap(tx, cipher, data), remote)
     IN  /\ cipher' = Wrap(tx, cipher, data).cipher
         /\ remote' = b.remote
         /\ sent' = b.sent
         /\ sending' = b.sending
         /\ tx' = b.tx
         /\ batchLog' = Append(batchLog, data)
  /\ UNCHANGED <<rx, decipher, cipherTextSize, chunkIndex, payloads, stage,
                 released, readyState, wsPaused, pc, stream, starts, recvd,
                 emitted, enqueued, written, authFail, threw, connects, salts,
                 late, drainTick, stageLog>>

\* the completion callback of ws.send: remote.resume()
SendDone ==
  /\ sending > 0
  /\ sending' = sending - 1
  /\ remote' = [remote EXCEPT !.paused = FALSE]
  /\ UNCHANGED <<rx, decipher, cipherTextSize, chunkIndex, payloads, tx,
                 cipher, stage, released, readyState, wsPaused, sent, pc,
                 stream, starts, recvd, batchLog, emitted, enqueued, written,
                 authFail, threw, connects, salts, late, drainTick, stageLog>>

\* remote.on('error'): log only; the socket is destroyed by the error
RemoteError ==
  /\ remote.handlers /\ ~remote.destroyed
  /\ remote' = [remote EXCEPT !.destroyed = TRUE]
  /\ UNCHANGED <<rx, decipher, cipherTextSize, chunkIndex, payloads, tx,
                 cipher, stage, released, readyState, wsPaused, sending, sent,
                 pc, stream, starts, recvd, batchLog, emitted, enqueued,
                 written, authFail, threw, connects, salts, late, drainTick,
                 stageLog>>

\* RemoteEnd that terminates the WebSocket as the close handler does
RemoteEndTerminates ==
  /\ remote.handlers /\ ~remote.destroyed /\ ~remote.paused /\ ~remote.fin
  /\ remote' = [remote EXCEPT !.fin = TRUE, !.ended = TRUE]
  /\ readyState' = IF readyState = "OPEN" THEN Terminate(readyState) ELSE readyState
  /\ UNCHANGED <<rx, decipher, cipherTextSize, chunkIndex, payloads, tx,
                 cipher, stage, released, wsPaused, sending, sent, pc, stream,
                 starts, recvd, batchLog, emitted, enqueued, written, authFail,
                 threw, connects, salts, late, drainTick, stageLog>>

\* remote.on('end'): remote.end()
RemoteEnd ==
  /\ remote.handlers /\ ~remote.destroyed /\ ~remote.paused /\ ~remote.fin
  /\ remote' = [remote EXCEPT !.fin = TRUE, !.ended = TRUE]
  /\ UNCHANGED <<rx, decipher, cipherTextSize, chunkIndex, payloads, tx,
                 cipher, stage, released, readyState, wsPaused, sending, sent,
                 pc, stream, starts, recvd, batchLog, emitted, enqueued,
                 written, authFail, threw, connects, salts, late, drainTick,
                 stageLog>>

\* RemoteClose without ws.terminate()
RemoteCloseNoTerminate ==
  /\ remote.handlers /\ ~remote.closed
  /\ remote.destroyed \/ (remote.fin /\ remote.ended)
  /\ remote' = [remote EXCEPT !.closed = TRUE, !.destroyed = TRUE]
  /\ UNCHANGED <<rx, decipher, cipherTextSize, chunkIndex, payloads, tx,
                 cipher, stage, released, readyState, wsPaused, sending, sent,
                 pc, stream, starts, recvd, batchLog, emitted, enqueued,
                 written, authFail, threw, connects, salts, late, drainTick,
                 stageLog>>

\* remote.on('close'): terminate the WebSocket if it is still open
RemoteClose ==
  /\ remote.handlers /\ ~remote.closed
  /\ remote.destroyed \/ (remote.fin /\ remote.ended)
  /\ remote' = [remote EXCEPT !.closed = TRUE, !.destroyed = TRUE]
  /\ readyState' = IF readyState = "OPEN" THEN Terminate(readyState) ELSE readyState
  /\ UNCHANGED <<rx, decipher, cipherTextSize, chunkIndex, payloads, tx,
                 cipher, stage, released, wsPaused, sending, sent, pc, stream,
                 starts, recvd, batchLog, emitted, enqueued, written, authFail,
                 threw, connects, salts, late, drainTick, stageLog>>

\* the client or the network starts closing the WebSocket
WsClosing ==
  /\ readyState = "OPEN"
  /\ readyState' = "CLOSING"
  /\ UNCHANGED <<rx, decipher, cipherTextSize, chunkIndex, payloads, tx,
                 cipher, stage, remote, released, wsPaused, sending, sent, pc,
                 stream, starts, recvd, batchLog, emitted, enqueued, written,
                 authFail, threw, connects, salts, late, drainTick, stageLog>>

\* ws.on('close')
WsClose ==
  /\ readyState = "CLOSING"
  /\ readyState' = "CLOSED"
  /\ remote' = IF ~remote.null /\ ~remote.destroyed
               THEN [remote EXCEPT !.destroyed = TRUE] ELSE remote
  /\ decipher' = NullCtx
  /\ cipher' = NullCtx
  /\ rx' = <<>>
  /\ tx' = <<>>
  /\ released' = TRUE
  /\ UNCHANGED <<cipherTextSize, chunkIndex, payloads, stage, wsPaused,
                 sending, sent, pc, stream, starts, recvd, batchLog, emitted,
                 enqueued, written, authFail, threw, connects, salts, late,
                 drainTick, stageLog>>

Next ==
  \/ \E c \in CutPoints : Message(c)
  \/ ConnectOk
  \/ ConnectFail
  \/ RemoteDrain
  \/ \E n \in BatchLens : RemoteData(n)
  \/ SendDone
  \/ RemoteError
  \/ RemoteEnd
  \/ RemoteClose
  \/ WsClosing
  \/ WsClose

Spec == Init /\ [][Next]_vars

\* every 'drain' event an invocation of the handler awaits eventually occurs
SpecLive == Init /\ [][Next]_vars /\ WF_vars(RemoteDrain)

\* --------------------------------------------- the outbound framer looped back
\* the batches a remote produces, fed back as the client's stream
LoopLens == {1, MAX_CHUNK, MAX_CHUNK + 1}

\* a batch whose first bytes read as an IPv4 address header
LoopData(lo, n) == [src |-> RemoteSrc, lo |-> lo, hi |-> lo + n, head |-> <<1, 127>>]

\* tx and cipher after cipher init and one 'data' event per length in lens,
\* nothing sent in between; hi is the number of bytes framed
RECURSIVE LoopWrap(_)
LoopWrap(lens) ==
  IF lens = <<>>
  THEN [tx |-> InitCipher(<<>>).tx, cipher |-> InitCipher(<<>>).cipher, hi |-> 0]
  ELSE LET k == Len(lens)
           w == LoopWrap(SubSeq(lens, 1, k - 1))
           f == Wrap(w.tx, w.cipher, LoopData(w.hi, lens[k]))
       IN  [tx |-> f.tx, cipher |-> f.cipher, hi |-> w.hi + lens[k]]

LoopStreams ==
  {LoopWrap(lens).tx : lens \in UNION {[1..k -> LoopLens] : k \in 1..MaxBatches}}

InitLoop ==
  /\ rx = <<>>
  /\ decipher = NullCtx
  /\ cipherTextSize = 2
  /\ chunkIndex = 0
  /\ payloads = <<>>
  /\ tx = <<>>
  /\ cipher = NullCtx
  /\ stage = CLOSED
  /\ remote = NullSocket
  /\ released = FALSE
  /\ readyState = "OPEN"
  /\ wsPaused = FALSE
  /\ sending = 0
  /\ sent = <<>>
  /\ pc = "idle"
  /\ stream \in LoopStreams
  /\ starts = [i \in 1..Len(stream) |-> ItemStart(stream, i)]
  /\ recvd = 0
  /\ batchLog = <<>>
  /\ emitted = <<>>
  /\ enqueued = <<>>
  /\ written = <<>>
  /\ authFail = -1
  /\ threw = FALSE
  /\ connects = 0
  /\ salts = 0
  /\ late = FALSE
  /\ drainTick = FALSE
  /\ stageLog = <<>>

\* the inbound side alone: messages, the connect resolving, drain events
NextLoop ==
  \/ \E c \in CutPoints : Message(c)
  \/ ConnectOk
  \/ RemoteDrain

SpecLoop == InitLoop /\ [][NextLoop]_vars

\* ------------------------------------------------------------------- claims
EndOf(i) == starts[i] + ItemSize(stream[i])

\* the frame of the stream a plaintext buffer was decrypted from
FrameOf(b) == 2 * b.src + 1

Before(bufs, off) == \A i \in 1..Len(bufs) : EndOf(FrameOf(bufs[i])) <= off

\* C1: once a frame has failed authentication the WebSocket is terminated, and
\* every payload ever enqueued, queued or written to the remote was decrypted
\* from a frame that precedes the failing one in the client's stream.
C1_AuthFailureStopsRelay ==
  authFail # -1 =>
    /\ readyState # "OPEN"
    /\ Before(enqueued, authFail)
    /\ Before(payloads, authFail)
    /\ Before(written, authFail)

C1_Witness ==
  /\ authFail # -1
  /\ written # <<>>
  /\ recvd = EndOf(Len(stream))

\* C2: the expected ciphertext size is 2 before a length frame and within
\* 1..0x3FFF before a payload frame (lengths 0 and above 0x3FFF are rejected).
C2_LengthInRange ==
  /\ chunkIndex % 2 = 0 => cipherTextSize = 2
  /\ chunkIndex % 2 = 1 => cipherTextSize \in 1..MAX_CHUNK

\* C3: the bytes that follow the address header in the first payload are the
\* first bytes written to the remote, and payloads are written in the order
\* the client sent them.
C3_TrailingBytesFirst ==
  /\ \A i \in 1..Len(written) : written[i].src = 1 => i = 1
  /\ \A i, j \in 1..Len(written) : i < j => written[i].src <= written[j].src

\* every frame verifies and every length is within 1..0x3FFF
FramingOk ==
  \A i \in 2..Len(stream) : stream[i].ok /\ BufLen(stream[i].pt) \in 1..MAX_CHUNK

\* the payload frames that have arrived completely
Arrived == {i \in 2..Len(stream) : i % 2 = 1 /\ EndOf(i) <= recvd}

\* C4: for a valid stream the payloads emitted so far are exactly the
\* plaintexts of the payload frames that have arrived completely, in order,
\* however the stream was split into messages.
C4_SplitAgnostic ==
  FramingOk =>
    /\ Len(emitted) = Cardinality(Arrived)
    /\ \A j \in 1..Len(emitted) : emitted[j] = stream[2 * j + 1].pt

C4_Witness ==
  /\ FramingOk
  /\ Len(emitted) >= 2
  /\ rx # <<>>

\* C5: when the first payload has a bad ATYP or is shorter than its header,
\* the WebSocket is terminated, no connect is started and nothing is written.
C5_InvalidAddressRejected ==
  (stage # CLOSED /\ ParseAddress(emitted[1]).res # "ok") =>
    /\ readyState # "OPEN"
    /\ connects = 0
    /\ written = <<>>

\* C6: while the handler awaits the remote's drain event the WebSocket is
\* paused, and until that event no payload is written and it is not resumed.
C6_PausedUntilDrain ==
  /\ [](pc = "drain" => wsPaused)
  /\ [][(pc = "drain" /\ (written' # written \/ ~wsPaused'))
          => drainTick' # drainTick]_vars

C6_Witness ==
  /\ pc = "drain"
  /\ wsPaused
  /\ payloads # <<>>
  /\ late

\* C7 as stated: at most one send awaits completion and tx is empty whenever
\* the remote is not paused.
C7_TxEmptyUnlessPaused ==
  /\ sending <= 1
  /\ ~remote.paused => tx = <<>>

\* C7 amended: the remote is paused while a send awaits completion and is
\* resumed only by the completion callback, so at most one send awaits
\* completion; whenever the remote is not paused tx is empty, except that it
\* holds the server salt until the first batch is sent.
C7_OneSendAtATime ==
  /\ [](/\ sending <= 1
        /\ sending = 1 => remote.paused
        /\ ~remote.paused =>
             tx = <<>> \/ (tx = <<SaltItem(ServerKey)>> /\ sent = <<>>))
  /\ [][(remote.paused /\ ~remote'.paused) => sending' = sending - 1]_vars

C7_Witness ==
  /\ sending = 1
  /\ remote.paused
  /\ Len(sent) = 2

\* C8: the server salt is generated at most once, in the step that installs
\* cipher and enqueues the salt; it is the first item of the first send and
\* occurs nowhere else in what is sent.
C8_SaltOnceAndFirst ==
  /\ [](/\ salts <= 1
        /\ sent # <<>> => sent[1][1] = SaltItem(ServerKey)
        /\ \A j \in 1..Len(sent) : \A i \in 1..Len(sent[j]) :
             sent[j][i].kind = "salt" => (j = 1 /\ i = 1))
  /\ [][/\ (~cipher.init /\ cipher'.init) <=> salts' = salts + 1
        /\ salts' # salts => tx' = Append(tx, SaltItem(ServerKey))]_vars

C8_Witness ==
  /\ salts = 1
  /\ Len(sent) = 2

\* C9: what has been enqueued after the address payload is, in order, what has
\* been written to the remote followed by what is still queued.
C9_Fifo ==
  IF stage = CLOSED
  THEN written = <<>> /\ payloads = enqueued
  ELSE Tail(enqueued) = written \o payloads

C9_Witness ==
  /\ late
  /\ stage = OPEN
  /\ payloads = <<>>
  /\ Len(written) >= 2

\* the encrypted frames of the j-th send
FramesOf(j) == IF j = 1 THEN Tail(sent[1]) ELSE sent[j]

\* C10: the j-th send carries the j-th batch of the remote, cut into
\* consecutive chunks of 1..0x3FFF bytes, each as an encrypted length frame
\* holding the chunk's length followed by the encrypted chunk.
C10_OutboundFraming ==
  /\ Len(sent) = Len(batchLog)
  /\ \A j \in 1..Len(sent) :
       LET f == FramesOf(j)
           n == Len(f) \div 2
       IN  /\ Len(f) = 2 * n
           /\ n >= 1
           /\ f[2 * n].pt.hi = batchLog[j].hi
           /\ \A i \in 1..Len(f) : f[i].kind = "frame"
           /\ \A c \in 1..n :
                /\ BufLen(f[2 * c].pt) \in 1..MAX_CHUNK
                /\ BufLen(f[2 * c - 1].pt) = 2
                /\ ReadUInt16BE(f[2 * c - 1].pt, 0) = BufLen(f[2 * c].pt)
                /\ f[2 * c].pt.src = RemoteSrc
                /\ f[2 * c].pt.lo = IF c = 1 THEN batchLog[j].lo
                                    ELSE f[2 * c - 2].pt.hi

C10_Witness ==
  /\ Len(sent) = 2
  /\ Len(sent[2]) = 6

\* the stream is what the outbound framer produces under one salt and sub-key
LoopedBack ==
  /\ stream[1] = SaltItem(ServerKey)
  /\ \A i \in 2..Len(stream) :
       /\ stream[i].kind = "frame"
       /\ stream[i].key = ServerKey
       /\ stream[i].nonce = i - 2
       /\ i % 2 = 1 => BufLen(stream[i].pt) \in 1..MAX_CHUNK

\* C11: when the stream is the outbound framer's output (salt, then a length
\* frame and a payload frame per plaintext of 1..0x3FFF bytes), the inbound
\* framer emits exactly the plaintexts of the payload frames that have arrived,
\* in order, and never fails authentication; once the whole stream has arrived
\* it has emitted all of them.
C11_RoundTrip ==
  LoopedBack =>
    /\ authFail = -1
    /\ Len(emitted) = Cardinality(Arrived)
    /\ \A j \in 1..Len(emitted) : emitted[j] = stream[2 * j + 1].pt
    /\ recvd = EndOf(Len(stream)) => 2 * Len(emitted) + 1 = Len(stream)

C11_Witness ==
  /\ LoopedBack
  /\ recvd = EndOf(Len(stream))
  /\ Len(emitted) = 4
  /\ BufLen(emitted[1]) = MAX_CHUNK
  /\ BufLen(emitted[2]) = 1

\* C12: remote is non-null exactly when stage is OPEN or WRITING; in
\* particular it is null while stage is CLOSED or OPENING, also after a
\* connect that completed when the WebSocket had already closed.
C12_RemoteIffRelaying == (~remote.null) <=> (stage \in {OPEN, WRITING})

\* the changes of stage the relay state machine allows
StageHops ==
  {<<CLOSED, OPENING>>, <<OPENING, WRITING>>, <<WRITING, OPEN>>, <<OPEN, WRITING>>}

\* C13: every assignment that changes stage is CLOSED->OPENING (a payload has
\* been decrypted), OPENING->WRITING (the connect has succeeded with the
\* WebSocket still open), WRITING->OPEN (the queue is empty) or OPEN->WRITING
\* (payloads are queued); stage never returns to CLOSED.
C13_StageTransitions ==
  [][LET path == <<stage>> \o stageLog' IN
       /\ stage' = path[Len(path)]
       /\ \A i \in 1..(Len(path) - 1) :
            path[i] # path[i + 1] => <<path[i], path[i + 1]>> \in StageHops
       /\ (stage = CLOSED /\ stage' # CLOSED) => emitted' # <<>>
       /\ (stage = OPENING /\ stage' # OPENING) =>
            /\ pc = "connect"
            /\ readyState = "OPEN"
            /\ ~remote'.null /\ ~remote'.destroyed
       /\ (stage # OPEN /\ stage' = OPEN) => payloads' = <<>>
       /\ (stage = OPEN /\ stage' = WRITING) => written' # written
       /\ stage # CLOSED => stage' # CLOSED]_vars

C13_Witness ==
  /\ stage = OPEN
  /\ stageLog = <<WRITING, OPEN>>
  /\ drainTick
  /\ Len(written) >= 2

\* the connect completed after the WebSocket had left OPEN
LateConnect == stage = OPENING /\ ~remote.null

\* C14: when the connect succeeds after the WebSocket has closed, the new
\* remote socket is destroyed, no salt or cipher is created, no handler is
\* registered on the remote, nothing is written to it and stage stays OPENING,
\* from then on.
C14_LateConnectDiscarded ==
  /\ [](LateConnect =>
          /\ remote.destroyed
          /\ ~remote.handlers
          /\ salts = 0 /\ ~cipher.init /\ tx = <<>> /\ sent = <<>>
          /\ written = <<>>
          /\ readyState # "OPEN"
          /\ pc = "idle")
  /\ [][(pc = "connect" /\ readyState # "OPEN" /\ ~remote'.null) => LateConnect']_vars
  /\ [][LateConnect => LateConnect']_vars

C14_Witness ==
  /\ LateConnect
  /\ readyState = "CLOSED"
  /\ Len(payloads) >= 2
  /\ late

\* C15: once the remote's handlers are registered, after the remote's close
\* event the WebSocket is no longer open; after the WebSocket's close event
\* the remote, if there is one, is destroyed and decipher, cipher, rx and tx
\* are released; the remote's error event changes nothing of the connection
\* but the socket it reports on.
C15_Teardown ==
  /\ [](remote.closed => readyState # "OPEN")
  /\ [](readyState = "CLOSED" =>
          /\ remote.null \/ remote.destroyed
          /\ released
          /\ decipher = NullCtx /\ cipher = NullCtx /\ rx = <<>> /\ tx = <<>>)
  /\ [][(~remote.closed /\ remote'.closed /\ readyState = "OPEN")
          => readyState' = "CLOSING"]_vars
  /\ [][(readyState # "CLOSED" /\ readyState' = "CLOSED")
          => /\ released'
             /\ remote'.null \/ remote'.destroyed]_vars
  /\ [][RemoteError => UNCHANGED <<readyState, stage, released, decipher, cipher,
                                   rx, tx, payloads, written, pc>>]_vars

C15_Witness ==
  /\ remote.handlers
  /\ remote.closed
  /\ readyState = "CLOSED"
  /\ released
  /\ authFail = -1
  /\ sent # <<>>

ConnectFailed == connects = 1 /\ pc = "idle" /\ remote.null

\* C17: when the connect fails the WebSocket is terminated in the same step,
\* and from then on remote is null, no salt or cipher exists, stage is OPENING
\* and nothing, the payloads queued during the connect included, is written.
C17_ConnectFailure ==
  /\ [](ConnectFailed =>
          /\ readyState # "OPEN"
          /\ stage = OPENING
          /\ salts = 0 /\ ~cipher.init /\ tx = <<>> /\ sent = <<>>
          /\ written = <<>>)
  /\ [][(pc = "connect" /\ pc' # "connect" /\ remote'.null)
          => (ConnectFailed' /\ readyState' # "OPEN")]_vars
  /\ [][ConnectFailed => ConnectFailed']_vars

C17_Witness ==
  /\ ConnectFailed
  /\ late
  /\ Len(payloads) >= 2
  /\ readyState = "CLOSING"

\* C18: an invocation of the message handler waits inside the connect-and-drain
\* section only while stage is OPENING or WRITING, and one enters the section
\* only from CLOSED or OPEN; a message that arrives while stage is OPENING or
\* WRITING decrypts and enqueues and leaves stage, the remote and the waiting
\* invocation alone; so every write to the remote is made by the one
\* invocation inside the section.
C18_OneHandlerInside ==
  /\ [](pc # "idle" => stage \in {OPENING, WRITING})
  /\ [][(pc # "idle" /\ \E c \in CutPoints : Message(c))
          => UNCHANGED <<pc, stage, written, remote, connects, wsPaused>>]_vars
  /\ [][(stage \in {OPENING, WRITING} /\ \E c \in CutPoints : Message(c))
          => UNCHANGED <<pc, stage, written, remote, connects, wsPaused>>]_vars
  /\ [][written' # written =>
          \/ pc = "connect" /\ pc' # "connect"
          \/ pc = "drain" /\ drainTick' # drainTick
          \/ /\ pc = "idle" /\ stage = OPEN
             /\ \E c \in CutPoints : Message(c)]_vars

C18_Witness ==
  /\ pc = "connect"
  /\ late
  /\ Len(payloads) >= 2
  /\ written = <<>>
  /\ readyState = "OPEN"

\* the WebSocket is open and the remote is connected, alive and not ended
Relaying ==
  readyState = "OPEN" /\ ~remote.null /\ ~remote.destroyed /\ ~remote.fin

\* C19: if every awaited drain event eventually occurs, then whenever payloads
\* are queued while the WebSocket is open and the remote is connected, either
\* one of the two stops being open or eventually the queue is empty, stage is
\* OPEN and everything enqueued after the address header has been written to
\* the remote, in order, whatever stage the payloads arrived in.
C19_EventuallyWritten ==
  (Relaying /\ payloads # <<>>) ~>
    \/ ~Relaying
    \/ stage = OPEN /\ payloads = <<>> /\ written = Tail(enqueued)

C19_Witness ==
  /\ Relaying
  /\ stage = OPEN
  /\ payloads = <<>>
  /\ late
  /\ drainTick
  /\ Len(written) = Len(enqueued) - 1
  /\ Len(written) >= 2

\* C20: while no invocation of the message handler waits at an await and the
\* WebSocket is open (neither terminated nor closed), stage = OPEN implies that
\* the queue is empty and every payload decrypted after the address payload
\* has been handed to the remote.
C20_OpenMeansDrained ==
  (pc = "idle" /\ readyState = "OPEN" /\ stage = OPEN) =>
    /\ payloads = <<>>
    /\ written = Tail(enqueued)

C20_Witness ==
  /\ pc = "idle"
  /\ readyState = "OPEN"
  /\ stage = OPEN
  /\ ~stream[Len(stream)].ok
  /\ Len(written) = 1
  /\ recvd >= starts[Len(stream)]

\* a payload decrypted before a frame that failed stays queued in stage OPEN,
\* once the WebSocket has been terminated
C20_StrandedAfterFailure ==
  /\ authFail # -1
  /\ stage = OPEN
  /\ pc = "idle"
  /\ payloads # <<>>
  /\ readyState = "CLOSING"

====
